---- MODULE Spec2Model ----
(***************************************************************************)
(* Student Management API (src/main.py): the in-memory registry            *)
(* students_db / next_id and the request handlers that read and mutate it. *)
(*                                                                         *)
(* Spec      the handlers executed serially, one whole handler per step.   *)
(* SpecConc  create_student and delete_student executed by several worker  *)
(*           threads, interleaved at the granularity of the individual     *)
(*           reads and writes of the two globals.                          *)
(***************************************************************************)
EXTENDS Integers, Sequences, FiniteSets, TLC

(* ------------------------------------------------------------------ *)
(* Bounds of the model                                                 *)
(* ------------------------------------------------------------------ *)

\* create_student is enabled while next_id <= MaxId (caps the id counter).
MaxId == 2

\* SpecConc: the number of requests the worker threads serve in one run.
MaxRequests == 3

(* ------------------------------------------------------------------ *)
(* Request payloads                                                    *)
(* ------------------------------------------------------------------ *)

Names   == {"Alice Smith", "Bob"}
Ages    == {22}
Emails  == {"alice@example.com"}
Courses == {"Mathematics", "Physics"}
Clients == {"10.0.0.1", "10.0.0.2"}

\* Optional[T] = None is <<>>, a present value v is <<v>>.
None == <<>>
Some(v) == <<v>>
Optional(S) == {None} \cup {Some(v) : v \in S}

\* class StudentCreate: four required fields.
StudentCreate == [name : Names, age : Ages, email : Emails, course : Courses]

\* class StudentUpdate: four optional fields, None by default.
StudentUpdate ==
  [name : Optional(Names), age : Optional(Ages),
   email : Optional(Emails), course : Optional(Courses)]

\* The ids a client may put in the path: every id the bound lets the registry
\* assign, and one that is never assigned.
StudentIds == 1..(MaxId + 1)

NoBody == [name |-> None, age |-> None, email |-> None, course |-> None]

(* ------------------------------------------------------------------ *)
(* State                                                               *)
(* ------------------------------------------------------------------ *)

VARIABLES
  students_db,   \* the list of student records (serial execution)
  next_id,       \* the id counter (serial execution)
  req,           \* the request the last handler served
  resp,          \* the response it gave
  assigned,      \* history: every id a create has assigned
  deleted,       \* history: every id a delete has removed
  heap,          \* SpecConc: list objects, object id -> contents
  g_students_db, \* SpecConc: the list object the global students_db is bound to
  g_next_id,     \* SpecConc: the global next_id
  pc,            \* SpecConc: each thread's position in its handler
  frame,         \* SpecConc: each thread's locals
  returned,      \* SpecConc history: records returned by completed creates
  removed,       \* SpecConc history: ids of completed successful deletes
  ncreated,      \* SpecConc history: number of completed creates
  started        \* SpecConc: number of requests accepted so far

serial_vars == <<students_db, next_id, req, resp, assigned, deleted>>
conc_vars == <<heap, g_students_db, g_next_id, pc, frame, returned, removed, ncreated, started>>
vars == <<students_db, next_id, req, resp, assigned, deleted,
          heap, g_students_db, g_next_id, pc, frame, returned, removed, ncreated,
          started>>

(* ------------------------------------------------------------------ *)
(* Helpers shared by the handlers                                      *)
(* ------------------------------------------------------------------ *)

\* next((s for s in db if s["id"] == student_id), None): the index of the
\* first record with that id, 0 when there is none.
find_student_by_index(db, student_id) ==
  IF student_id \in 1..Len(db) THEN student_id ELSE 0

find_student(db, student_id) ==
  IF \E i \in 1..Len(db) : db[i].id = student_id
  THEN CHOOSE i \in 1..Len(db) :
         /\ db[i].id = student_id
         /\ \A j \in 1..(i - 1) : db[j].id # student_id
  ELSE 0

Request(op, student_id, body, client) ==
  [op |-> op, student_id |-> student_id, body |-> body, client |-> client]

Response(status, students, detail) ==
  [status |-> status, students |-> students, detail |-> detail]

\* raise HTTPException(status_code=404, detail="Student not found")
NotFound == Response(404, <<>>, <<"Student not found">>)

(* ------------------------------------------------------------------ *)
(* Serial execution: one whole handler per step                        *)
(* ------------------------------------------------------------------ *)

\* create_student's dict literal: the record built from the payload.
NewStudent_verbatim_age(id, student) ==
  [id |-> id, name |-> student.name, age |-> student.age,
   email |-> student.email, course |-> student.course]

NewStudent(id, student) ==
  [id |-> id, name |-> student.name, age |-> student.age + 20,
   email |-> student.email, course |-> student.course]

\* update_student's four "if ... is not None" assignments on the found record.
apply_update_age_offset(s, student_update) ==
  [id     |-> s.id,
   name   |-> IF student_update.name # None THEN student_update.name[1] ELSE s.name,
   age    |-> IF student_update.age # None THEN student_update.age[1] + 20 ELSE s.age,
   email  |-> IF student_update.email # None THEN student_update.email[1] ELSE s.email,
   course |-> IF student_update.course # None THEN student_update.course[1] ELSE s.course]

apply_update(s, student_update) ==
  [id     |-> s.id,
   name   |-> IF student_update.name # None THEN student_update.name[1] ELSE s.name,
   age    |-> IF student_update.age # None THEN student_update.age[1] ELSE s.age,
   email  |-> IF student_update.email # None THEN student_update.email[1] ELSE s.email,
   course |-> IF student_update.course # None THEN student_update.course[1] ELSE s.course]

\* delete_student's [s for s in students_db if s["id"] != student_id]
without_student(db, student_id) ==
  LET keep(s) == s.id # student_id IN SelectSeq(db, keep)

\* A StudentCreate as the request body recorded in req.
AsBody(student) ==
  [name |-> Some(student.name), age |-> Some(student.age),
   email |-> Some(student.email), course |-> Some(student.course)]

\* GET /
read_root ==
  /\ req' = Request("root", 0, NoBody, "")
  /\ resp' = Response(200, <<>>,
               <<"message", "Welcome to Student Management API", "version", "1.0.0">>)
  /\ UNCHANGED <<students_db, next_id, assigned, deleted>>

\* GET /health
health_check ==
  /\ req' = Request("health", 0, NoBody, "")
  /\ resp' = Response(200, <<>>, <<"status", "healthy">>)
  /\ UNCHANGED <<students_db, next_id, assigned, deleted>>

\* GET /students. The decorator @limiter.limit("5/minute") runs slowapi's
\* limiter before the body; its decision is made outside this repository, so
\* either outcome is possible here: the call is let through, or
\* RateLimitExceeded is raised and answered 429 by the registered handler.
get_students(client, allowed) ==
  /\ req' = Request("list", 0, NoBody, client)
  /\ resp' = IF allowed
             THEN Response(200, students_db, <<>>)
             ELSE Response(429, <<>>, <<"Rate limit exceeded">>)
  /\ UNCHANGED <<students_db, next_id, assigned, deleted>>

\* GET /students/{student_id}
get_student(student_id) ==
  LET i == find_student(students_db, student_id) IN
  /\ req' = Request("get", student_id, NoBody, "")
  /\ resp' = IF i = 0 THEN NotFound ELSE Response(200, <<students_db[i]>>, <<>>)
  /\ UNCHANGED <<students_db, next_id, assigned, deleted>>

\* POST /students
create_student_no_increment(student) ==
  LET new_student == NewStudent(next_id, student) IN
  /\ next_id <= MaxId
  /\ req' = Request("create", 0, AsBody(student), "")
  /\ students_db' = Append(students_db, new_student)
  /\ next_id' = next_id
  /\ resp' = Response(201, <<new_student>>, <<>>)
  /\ assigned' = assigned \cup {new_student.id}
  /\ UNCHANGED deleted

create_student_len_id(student) ==
  LET new_student == NewStudent(Len(students_db) + 1, student) IN
  /\ next_id <= MaxId
  /\ req' = Request("create", 0, AsBody(student), "")
  /\ students_db' = Append(students_db, new_student)
  /\ next_id' = next_id + 1
  /\ resp' = Response(201, <<new_student>>, <<>>)
  /\ assigned' = assigned \cup {new_student.id}
  /\ UNCHANGED deleted

create_student_prepend(student) ==
  LET new_student == NewStudent(next_id, student) IN
  /\ next_id <= MaxId
  /\ req' = Request("create", 0, AsBody(student), "")
  /\ students_db' = <<new_student>> \o students_db
  /\ next_id' = next_id + 1
  /\ resp' = Response(201, <<new_student>>, <<>>)
  /\ assigned' = assigned \cup {new_student.id}
  /\ UNCHANGED deleted

create_student(student) ==
  LET new_student == NewStudent(next_id, student) IN
  /\ next_id <= MaxId
  /\ req' = Request("create", 0, AsBody(student), "")
  /\ students_db' = Append(students_db, new_student)
  /\ next_id' = next_id + 1
  /\ resp' = Response(201, <<new_student>>, <<>>)
  /\ assigned' = assigned \cup {new_student.id}
  /\ UNCHANGED deleted

\* PUT /students/{student_id}
update_student(student_id, student_update) ==
  LET i == find_student(students_db, student_id) IN
  /\ req' = Request("update", student_id, student_update, "")
  /\ IF i = 0
     THEN /\ resp' = NotFound
          /\ UNCHANGED students_db
     ELSE LET student == apply_update(students_db[i], student_update) IN
          /\ students_db' = [students_db EXCEPT ![i] = student]
          /\ resp' = Response(200, <<student>>, <<>>)
  /\ UNCHANGED <<next_id, assigned, deleted>>

\* DELETE /students/{student_id}
delete_student(student_id) ==
  LET i == find_student(students_db, student_id) IN
  /\ req' = Request("delete", student_id, NoBody, "")
  /\ IF i = 0
     THEN /\ resp' = NotFound
          /\ UNCHANGED <<students_db, deleted>>
     ELSE /\ students_db' = without_student(students_db, student_id)
          /\ resp' = Response(204, <<>>, <<>>)
          /\ deleted' = deleted \cup {student_id}
  /\ UNCHANGED <<next_id, assigned>>

(* ------------------------------------------------------------------ *)
(* Initial state: the module-level assignments of main.py              *)
(* ------------------------------------------------------------------ *)

Threads == {"t1", "t2"}

NoFrame ==
  [op |-> "none", student |-> NoBody, student_id |-> 0,
   new_student |-> <<>>, lst |-> 0, tmp |-> 0, idx |-> 0, acc |-> <<>>]

Init ==
  /\ students_db = <<>>
  /\ next_id = 1
  /\ req = Request("none", 0, NoBody, "")
  /\ resp = Response(0, <<>>, <<>>)
  /\ assigned = {}
  /\ deleted = {}
  /\ heap = <<<<>>>>
  /\ g_students_db = 1
  /\ g_next_id = 1
  /\ pc = [t \in Threads |-> "idle"]
  /\ frame = [t \in Threads |-> NoFrame]
  /\ returned = {}
  /\ removed = {}
  /\ ncreated = 0
  /\ started = 0

Next ==
  \/ read_root /\ UNCHANGED conc_vars
  \/ health_check /\ UNCHANGED conc_vars
  \/ \E client \in Clients, allowed \in BOOLEAN :
       get_students(client, allowed) /\ UNCHANGED conc_vars
  \/ \E student_id \in StudentIds : get_student(student_id) /\ UNCHANGED conc_vars
  \/ \E student \in StudentCreate : create_student(student) /\ UNCHANGED conc_vars
  \/ \E student_id \in StudentIds, student_update \in StudentUpdate :
       update_student(student_id, student_update) /\ UNCHANGED conc_vars
  \/ \E student_id \in StudentIds : delete_student(student_id) /\ UNCHANGED conc_vars

Spec == Init /\ [][Next]_vars

(* ------------------------------------------------------------------ *)
(* Properties of serial execution                                      *)
(* ------------------------------------------------------------------ *)

HasId(db, student_id) == \E i \in 1..Len(db) : db[i].id = student_id

\* db with the element at position k taken out.
DropAt(db, k) == [i \in 1..(Len(db) - 1) |-> IF i < k THEN db[i] ELSE db[i + 1]]

C2_CreateReturnsSubmittedFields ==
  (req.op = "create" /\ resp.status = 201) =>
     /\ Len(resp.students) = 1
     /\ resp.students[1].name = req.body.name[1]
     /\ resp.students[1].age = req.body.age[1]
     /\ resp.students[1].email = req.body.email[1]
     /\ resp.students[1].course = req.body.course[1]
     /\ resp.students[1].id \in Nat

\* C3: the ids assigned by successive creates are 1, 2, 3, ...; no two stored
\* students share an id; an id assigned once is never assigned again, also
\* after its record was deleted: next_id is greater than every id ever
\* assigned and never decreases.
C3_IdsSequentialUniqueNeverReused ==
  /\ [](/\ \A i, j \in 1..Len(students_db) :
             i # j => students_db[i].id # students_db[j].id
        /\ \A a \in assigned : a < next_id
        /\ \A i \in 1..Len(students_db) : students_db[i].id \in assigned)
  /\ [][/\ next_id' >= next_id
        /\ req'.op = "create" =>
             /\ resp'.students[1].id \notin assigned
             /\ resp'.students[1].id = Cardinality(assigned) + 1
             /\ assigned' = assigned \cup {resp'.students[1].id}]_vars

C3_Witness ==
  /\ req.op = "create"
  /\ resp.students[1].id = 2
  /\ 1 \in deleted
  /\ Len(students_db) = 1

\* C4: an update of an existing id overwrites each field present in the
\* request with the submitted value verbatim (age with no +20), leaves absent
\* fields and the id as they were, leaves every other record, the order of the
\* registry and next_id unchanged, and returns the updated record.
C4_UpdateOverwritesPresentFieldsOnly ==
  [][(req'.op = "update" /\ HasId(students_db, req'.student_id)) =>
       \E k \in 1..Len(students_db) :
         LET old == students_db[k]
             new == students_db'[k]
             upd == req'.body
         IN
         /\ old.id = req'.student_id
         /\ Len(students_db') = Len(students_db)
         /\ \A i \in 1..Len(students_db) : i # k => students_db'[i] = students_db[i]
         /\ new.id = old.id
         /\ new.name = (IF upd.name = None THEN old.name ELSE upd.name[1])
         /\ new.age = (IF upd.age = None THEN old.age ELSE upd.age[1])
         /\ new.email = (IF upd.email = None THEN old.email ELSE upd.email[1])
         /\ new.course = (IF upd.course = None THEN old.course ELSE upd.course[1])
         /\ next_id' = next_id
         /\ resp'.status = 200
         /\ resp'.students = <<new>>]_vars

C4_Witness ==
  /\ req.op = "update"
  /\ resp.status = 200
  /\ req.body = [name |-> None, age |-> Some(22), email |-> None, course |-> Some("Physics")]
  /\ Len(students_db) = 2
  /\ req.student_id = 1
  /\ students_db[1].age = 22
  /\ students_db[2].age = 42
  /\ students_db[2].course = "Mathematics"

\* C5: Get, Update and Delete with an id that matches no stored record fail
\* with 404 "Student not found" and leave the registry, its order and next_id
\* as they were; Get with an id that matches a stored record answers 200 with
\* that record.
C5_UnknownIdNotFoundKnownIdFound ==
  [][/\ (req'.op \in {"get", "update", "delete"}
           /\ ~HasId(students_db, req'.student_id)) =>
          /\ resp'.status = 404
          /\ resp'.detail = <<"Student not found">>
          /\ resp'.students = <<>>
          /\ students_db' = students_db
          /\ next_id' = next_id
     /\ (req'.op = "get" /\ HasId(students_db, req'.student_id)) =>
          /\ resp'.status = 200
          /\ Len(resp'.students) = 1
          /\ resp'.students[1].id = req'.student_id
          /\ \E i \in 1..Len(students_db) : students_db[i] = resp'.students[1]
          /\ students_db' = students_db]_vars

C5_Witness ==
  /\ req.op = "delete"
  /\ resp.status = 404
  /\ req.student_id = 1
  /\ Len(students_db) = 1
  /\ students_db[1].id = 2

\* C6: once an id was deleted, every later Get, Update and Delete of it fails
\* with 404, whatever happened in between; a successful delete removes exactly
\* the record with that id and leaves the other records, their relative order
\* and next_id unchanged.
C6_DeletedStaysDeleted ==
  /\ [](\A d \in deleted : ~HasId(students_db, d))
  /\ [][/\ (req'.op \in {"get", "update", "delete"} /\ req'.student_id \in deleted) =>
             resp'.status = 404
        /\ (req'.op = "delete" /\ resp'.status = 204) =>
             /\ \E k \in 1..Len(students_db) :
                  /\ students_db[k].id = req'.student_id
                  /\ students_db' = DropAt(students_db, k)
             /\ next_id' = next_id
             /\ deleted' = deleted \cup {req'.student_id}]_vars

C6_Witness ==
  /\ req.op = "get"
  /\ req.student_id = 1
  /\ 1 \in deleted
  /\ resp.status = 404
  /\ Len(students_db) = 1
  /\ students_db[1].id = 2

\* C8: a list that is answered returns exactly the stored students in the
\* order of the registry, which is the order of creation (the stored ids are
\* strictly ascending), and changes neither the registry nor next_id.
C8_ListReturnsRegistryInCreationOrder ==
  /\ [](\A i, j \in 1..Len(students_db) :
          i < j => students_db[i].id < students_db[j].id)
  /\ [][req'.op = "list" =>
          /\ resp'.status = 200 => resp'.students = students_db
          /\ students_db' = students_db
          /\ next_id' = next_id]_vars

C8_Witness ==
  /\ req.op = "list"
  /\ resp.status = 200
  /\ Len(resp.students) = 2
  /\ resp.students[1].id < resp.students[2].id
  /\ resp.students = students_db

(* ------------------------------------------------------------------ *)
(* Concurrent execution: create_student and delete_student run by      *)
(* worker threads (a plain "def" endpoint runs in the thread pool),    *)
(* one read or write of a global per step                              *)
(* ------------------------------------------------------------------ *)

Idle(t) == pc[t] = "idle"

Goto(t, label) == pc' = [pc EXCEPT ![t] = label]

\* A request is handed to an idle worker thread.
begin_create(t, student) ==
  /\ Idle(t)
  /\ started < MaxRequests
  /\ started' = started + 1
  /\ frame' = [frame EXCEPT ![t] = [NoFrame EXCEPT !.op = "create",
                                                   !.student = AsBody(student)]]
  /\ Goto(t, "c_build")
  /\ UNCHANGED <<heap, g_students_db, g_next_id, returned, removed, ncreated>>

begin_delete(t, student_id) ==
  /\ Idle(t)
  /\ started < MaxRequests
  /\ started' = started + 1
  /\ frame' = [frame EXCEPT ![t] = [NoFrame EXCEPT !.op = "delete",
                                                   !.student_id = student_id]]
  /\ Goto(t, "d_find")
  /\ UNCHANGED <<heap, g_students_db, g_next_id, returned, removed, ncreated>>

\* new_student = {"id": next_id, ...}: reads the global next_id.
c_build(t) ==
  /\ pc[t] = "c_build"
  /\ LET student == [name |-> frame[t].student.name[1], age |-> frame[t].student.age[1],
                     email |-> frame[t].student.email[1],
                     course |-> frame[t].student.course[1]]
     IN frame' = [frame EXCEPT ![t].new_student = <<NewStudent(g_next_id, student)>>]
  /\ Goto(t, "c_load")
  /\ UNCHANGED <<heap, g_students_db, g_next_id, returned, removed, ncreated, started>>

\* students_db.append(...): the global is read, giving a reference to a list ...
c_load(t) ==
  /\ pc[t] = "c_load"
  /\ frame' = [frame EXCEPT ![t].lst = g_students_db]
  /\ Goto(t, "c_append")
  /\ UNCHANGED <<heap, g_students_db, g_next_id, returned, removed, ncreated, started>>

\* ... and append is called on that list object.
c_append(t) ==
  /\ pc[t] = "c_append"
  /\ heap' = [heap EXCEPT ![frame[t].lst] = Append(@, frame[t].new_student[1])]
  /\ Goto(t, "c_read")
  /\ UNCHANGED <<g_students_db, g_next_id, frame, returned, removed, ncreated, started>>

\* next_id += 1: the global is read ...
c_read(t) ==
  /\ pc[t] = "c_read"
  /\ frame' = [frame EXCEPT ![t].tmp = g_next_id]
  /\ Goto(t, "c_write")
  /\ UNCHANGED <<heap, g_students_db, g_next_id, returned, removed, ncreated, started>>

\* ... and the sum is stored back.
c_write(t) ==
  /\ pc[t] = "c_write"
  /\ g_next_id' = frame[t].tmp + 1
  /\ Goto(t, "c_return")
  /\ UNCHANGED <<heap, g_students_db, frame, returned, removed, ncreated, started>>

\* return new_student
c_return(t) ==
  /\ pc[t] = "c_return"
  /\ returned' = returned \cup {frame[t].new_student[1]}
  /\ ncreated' = ncreated + 1
  /\ frame' = [frame EXCEPT ![t] = NoFrame]
  /\ Goto(t, "idle")
  /\ UNCHANGED <<heap, g_students_db, g_next_id, removed, started>>

\* student = next(...); if not student: raise HTTPException(404)
\* (the lookup scan is taken as one step; the comprehension below is not)
d_find(t) ==
  /\ pc[t] = "d_find"
  /\ IF find_student(heap[g_students_db], frame[t].student_id) = 0
     THEN /\ frame' = [frame EXCEPT ![t] = NoFrame]
          /\ Goto(t, "idle")
     ELSE /\ UNCHANGED frame
          /\ Goto(t, "d_load")
  /\ UNCHANGED <<heap, g_students_db, g_next_id, returned, removed, ncreated, started>>

\* [s for s in students_db if ...]: the global is read and iteration starts
\* on that list object, with an empty result list.
d_load(t) ==
  /\ pc[t] = "d_load"
  /\ frame' = [frame EXCEPT ![t].lst = g_students_db, ![t].idx = 0, ![t].acc = <<>>]
  /\ Goto(t, "d_iter")
  /\ UNCHANGED <<heap, g_students_db, g_next_id, returned, removed, ncreated, started>>

\* One turn of the comprehension: the list iterator yields the next element of
\* the list as it is now, or is exhausted.
d_iter(t) ==
  /\ pc[t] = "d_iter"
  /\ IF frame[t].idx < Len(heap[frame[t].lst])
     THEN LET s == heap[frame[t].lst][frame[t].idx + 1] IN
          /\ frame' = [frame EXCEPT
                         ![t].idx = @ + 1,
                         ![t].acc = IF s.id # frame[t].student_id THEN Append(@, s) ELSE @]
          /\ UNCHANGED pc
     ELSE /\ UNCHANGED frame
          /\ Goto(t, "d_store")
  /\ UNCHANGED <<heap, g_students_db, g_next_id, returned, removed, ncreated, started>>

\* students_db = <the new list>; return None
d_store(t) ==
  /\ pc[t] = "d_store"
  /\ heap' = Append(heap, frame[t].acc)
  /\ g_students_db' = Len(heap) + 1
  /\ removed' = removed \cup {frame[t].student_id}
  /\ frame' = [frame EXCEPT ![t] = NoFrame]
  /\ Goto(t, "idle")
  /\ UNCHANGED <<g_next_id, returned, ncreated, started>>

NextConc ==
  \E t \in Threads :
    \/ \E student \in StudentCreate : begin_create(t, student) /\ UNCHANGED serial_vars
    \/ \E student_id \in StudentIds : begin_delete(t, student_id) /\ UNCHANGED serial_vars
    \/ c_build(t) /\ UNCHANGED serial_vars
    \/ c_load(t) /\ UNCHANGED serial_vars
    \/ c_append(t) /\ UNCHANGED serial_vars
    \/ c_read(t) /\ UNCHANGED serial_vars
    \/ c_write(t) /\ UNCHANGED serial_vars
    \/ c_return(t) /\ UNCHANGED serial_vars
    \/ d_find(t) /\ UNCHANGED serial_vars
    \/ d_load(t) /\ UNCHANGED serial_vars
    \/ d_iter(t) /\ UNCHANGED serial_vars
    \/ d_store(t) /\ UNCHANGED serial_vars

SpecConc == Init /\ [][NextConc]_vars

(* ------------------------------------------------------------------ *)
(* Properties of concurrent execution                                  *)
(* ------------------------------------------------------------------ *)

AllIdle == \A t \in Threads : Idle(t)

Registry == heap[g_students_db]

\* C9: with create requests interleaved, no two stored students ever share an
\* id, and n completed creates have advanced next_id by exactly n.
C9_ConcurrentCreatesKeepIdsUnique ==
  /\ \A i, j \in 1..Len(Registry) : i # j => Registry[i].id # Registry[j].id
  /\ AllIdle => g_next_id = 1 + ncreated

\* C10: once all requests have finished, every record a create returned is in
\* the registry unless a delete of its id succeeded.
C10_NoCreateLostToDelete ==
  AllIdle =>
    \A r \in returned :
      r.id \notin removed => \E i \in 1..Len(Registry) : Registry[i] = r

====
